---------------------------- MODULE Spec2Model ----------------------------
(* SmartLetterGen (src/app.py): a DOCX mail-merge.  The model covers the   *)
(* value formatter, the style resolver, the placeholder engine and the     *)
(* batch driver that validates the sheet and fills the archive.            *)
(*                                                                         *)
(* Text is a sequence of one-character strings.  A number cell is an int   *)
(* or a float held in thousandths (m = 98456 is 98.456).                   *)
EXTENDS Integers, Sequences, FiniteSets, TLC

VARIABLES
    fphase, fkey, fcell, fout, fapplied, fstyle,   \* one cell through the formatter
    pphase, ptemplate, pdata, pdoc,                \* one paragraph through the engine
    pc, template_file, excel_file, button,         \* one run of the script
    df, rowIdx, doc, row_data, doc_buffer,
    zip_file, diag, offered

fvars == <<fphase, fkey, fcell, fout, fapplied, fstyle>>
pvars == <<pphase, ptemplate, pdata, pdoc>>
bvars == <<pc, template_file, excel_file, button, df, rowIdx, doc,
           row_data, doc_buffer, zip_file, diag, offered>>
vars == <<fvars, pvars, bvars>>

-----------------------------------------------------------------------------
(* Bounds of the model. *)
MaxSuffixes == 2
MaxRuns == 4
MaxRows == 2

-----------------------------------------------------------------------------
(* Python text primitives. *)

UpperChars == <<"A","B","C","D","E","F","G","H","I","J","K","L","M",
                "N","O","P","Q","R","S","T","U","V","W","X","Y","Z">>
LowerChars == <<"a","b","c","d","e","f","g","h","i","j","k","l","m",
                "n","o","p","q","r","s","t","u","v","w","x","y","z">>
DigitChars == <<"0","1","2","3","4","5","6","7","8","9">>

LowerChar(c) ==
    IF \E i \in 1..Len(UpperChars) : UpperChars[i] = c
    THEN LowerChars[CHOOSE i \in 1..Len(UpperChars) : UpperChars[i] = c]
    ELSE c

\* str.lower()
Lower(s) == [i \in 1..Len(s) |-> LowerChar(s[i])]

\* the `in` operator on two strings
Contains(sub, s) ==
    \E i \in 0..(Len(s) - Len(sub)) : SubSeq(s, i + 1, i + Len(sub)) = sub

\* str.startswith
StartsWith(s, prefix) ==
    Len(s) >= Len(prefix) /\ SubSeq(s, 1, Len(prefix)) = prefix

\* Whitespace, for \s and str.strip(); the model's texts hold only the space.
IsSpace(c) == c = " "

RECURSIVE LStrip(_)
LStrip(s) == IF s # <<>> /\ IsSpace(Head(s)) THEN LStrip(Tail(s)) ELSE s

RECURSIVE RStrip(_)
RStrip(s) ==
    IF s # <<>> /\ IsSpace(s[Len(s)]) THEN RStrip(SubSeq(s, 1, Len(s) - 1)) ELSE s

\* str.strip()
Strip(s) == RStrip(LStrip(s))

\* str.find(sub, start): the 0-based index of the first occurrence at or
\* after start, or -1.
Find(s, sub, start) ==
    LET hits == {i \in start..(Len(s) - Len(sub)) :
                    SubSeq(s, i + 1, i + Len(sub)) = sub}
    IN  IF hits = {} THEN -1 ELSE CHOOSE i \in hits : \A j \in hits : i <= j

\* s[a:b] with 0 <= a
Slice(s, a, b) == SubSeq(s, a + 1, b)

-----------------------------------------------------------------------------
(* Python values and their conversions. *)

PyInt(n) == [t |-> "int", n |-> n]
PyFloat(m) == [t |-> "float", m |-> m]
PyString(s) == [t |-> "str", s |-> s]
NaN == [t |-> "nan"]
None == [t |-> "none"]

IsDigit(c) == \E d \in 1..10 : DigitChars[d] = c
DigitVal(c) == (CHOOSE d \in 1..10 : DigitChars[d] = c) - 1

RECURSIVE NatStr(_)
NatStr(n) ==
    IF n < 10 THEN <<DigitChars[n + 1]>>
    ELSE NatStr(n \div 10) \o <<DigitChars[(n % 10) + 1]>>

RECURSIVE DigitsVal(_)
DigitsVal(s) ==
    IF s = <<>> THEN 0
    ELSE 10 * DigitsVal(SubSeq(s, 1, Len(s) - 1)) + DigitVal(s[Len(s)])

Abs(n) == IF n < 0 THEN -n ELSE n
Sign(n) == IF n < 0 THEN <<"-">> ELSE <<>>

\* The fraction digits repr() prints for a float in thousandths: trailing
\* zeros dropped, one digit at least.
FracStr(f) ==
    IF f % 100 = 0 THEN <<DigitChars[(f \div 100) + 1]>>
    ELSE IF f % 10 = 0
         THEN <<DigitChars[(f \div 100) + 1], DigitChars[((f \div 10) % 10) + 1]>>
         ELSE <<DigitChars[(f \div 100) + 1], DigitChars[((f \div 10) % 10) + 1],
                DigitChars[(f % 10) + 1]>>

\* str(value)
PyStr(value) ==
    CASE value.t = "int" -> Sign(value.n) \o NatStr(Abs(value.n))
      [] value.t = "float" ->
            Sign(value.m) \o NatStr(Abs(value.m) \div 1000) \o <<".">>
                \o FracStr(Abs(value.m) % 1000)
      [] value.t = "str" -> value.s
      [] value.t = "nan" -> <<"n", "a", "n">>
      [] OTHER -> <<"N", "o", "n", "e">>

\* float() of a string: surrounding whitespace, a sign, digits with at most
\* one point.  (The model's texts hold no exponent, underscore, inf or nan,
\* and at most three fraction digits.)
ParseFloat(s) ==
    LET t == Strip(s)
        signed == t # <<>> /\ t[1] \in {"-", "+"}
        body == IF signed THEN Tail(t) ELSE t
        dots == {i \in 1..Len(body) : body[i] = "."}
        ip == IF dots = {} THEN body
              ELSE SubSeq(body, 1, (CHOOSE i \in dots : TRUE) - 1)
        fp == IF dots = {} THEN <<>>
              ELSE SubSeq(body, (CHOOSE i \in dots : TRUE) + 1, Len(body))
        ok == /\ Cardinality(dots) <= 1
              /\ Len(ip) + Len(fp) >= 1
              /\ Len(fp) <= 3
              /\ \A i \in 1..Len(ip) : IsDigit(ip[i])
              /\ \A i \in 1..Len(fp) : IsDigit(fp[i])
        frac == fp \o SubSeq(<<"0", "0", "0">>, 1, 3 - Len(fp))
        mag == 1000 * DigitsVal(ip) + DigitsVal(frac)
    IN  IF ok
        THEN [ok |-> TRUE, nan |-> FALSE,
              m |-> IF signed /\ t[1] = "-" THEN -mag ELSE mag]
        ELSE [ok |-> FALSE, nan |-> FALSE, m |-> 0]

\* float(value): ok is false where Python raises.
ToFloat(value) ==
    CASE value.t = "int" -> [ok |-> TRUE, nan |-> FALSE, m |-> 1000 * value.n]
      [] value.t = "float" -> [ok |-> TRUE, nan |-> FALSE, m |-> value.m]
      [] value.t = "str" -> ParseFloat(value.s)
      [] value.t = "nan" -> [ok |-> TRUE, nan |-> TRUE, m |-> 0]
      [] OTHER -> [ok |-> FALSE, nan |-> FALSE, m |-> 0]

\* int(float(value)): truncation toward zero; int(nan) raises.
ToInt(value) ==
    LET f == ToFloat(value)
    IN  IF f.ok /\ ~f.nan
        THEN [ok |-> TRUE,
              n |-> IF f.m < 0 THEN -(Abs(f.m) \div 1000) ELSE f.m \div 1000]
        ELSE [ok |-> FALSE, n |-> 0]

Pad3(n) == <<DigitChars[(n \div 100) + 1], DigitChars[((n \div 10) % 10) + 1],
             DigitChars[(n % 10) + 1]>>

RECURSIVE GroupNat(_)
GroupNat(n) ==
    IF n < 1000 THEN NatStr(n)
    ELSE GroupNat(n \div 1000) \o <<",">> \o Pad3(n % 1000)

\* f"{n:,}"
CommaStr(n) == Sign(n) \o GroupNat(Abs(n))

\* Hundredths nearest to a magnitude in thousandths.  A float whose third
\* fraction digit is 5 is a true tie only when binary holds it exactly (a
\* multiple of 0.125), and the tie goes to the even neighbour.
RoundHundredths(a) ==
    LET h == a \div 10
        r == a % 10
    IN  IF r > 5 \/ (r = 5 /\ h % 2 = 1) THEN h + 1 ELSE h

\* f"{x:.2f}"
TwoDecimalStr(f) ==
    IF f.nan THEN <<"n", "a", "n">>
    ELSE LET h == RoundHundredths(Abs(f.m))
         IN  Sign(f.m) \o NatStr(h \div 100) \o <<".">>
                 \o <<DigitChars[((h \div 10) % 10) + 1], DigitChars[(h % 10) + 1]>>

-----------------------------------------------------------------------------
(* FORMATTERS *)

RUPEE == "₹"

\* The try/except of the "_comma" branch.
FormatComma(value) ==
    IF ToInt(value).ok THEN CommaStr(ToInt(value).n) ELSE PyStr(value)

\* The try/except of the "_c" branch.
FormatCurrency(value) ==
    IF ToInt(value).ok THEN <<RUPEE>> \o CommaStr(ToInt(value).n) ELSE PyStr(value)

Format2dTruncated(value) ==
    IF ToInt(value).ok THEN NatStr(Abs(ToInt(value).n)) ELSE PyStr(value)

\* The try/except of the "_2d" branch.
Format2d(value) ==
    IF ToFloat(value).ok THEN TwoDecimalStr(ToFloat(value)) ELSE PyStr(value)

U == "_"
COMMA_MARK == <<U, "c", "o", "m", "m", "a">>
C_MARK == <<U, "c">>
D2_MARK == <<U, "2", "d">>

\* format_value with independent ifs in place of the elif chain.
format_value_every_match(key, value) ==
    LET key_lower == Lower(key)
        hits == <<Contains(COMMA_MARK, key_lower), Contains(C_MARK, key_lower),
                  Contains(D2_MARK, key_lower)>>
        s1 == IF hits[1] THEN FormatComma(value) ELSE PyStr(value)
        s2 == IF hits[2] THEN FormatCurrency(value) ELSE s1
        s3 == IF hits[3] THEN Format2d(value) ELSE s2
    IN  [text |-> s3,
         applied |-> {n \in {"comma", "currency", "2d"} :
                         \/ n = "comma" /\ hits[1]
                         \/ n = "currency" /\ hits[2]
                         \/ n = "2d" /\ hits[3]}]

\* format_value: the text returned, and which formatter branches ran.
format_value(key, value) ==
    IF value.t = "none" THEN [text |-> <<>>, applied |-> {}]
    ELSE LET key_lower == Lower(key)
         IN  IF Contains(COMMA_MARK, key_lower)
             THEN [text |-> FormatComma(value), applied |-> {"comma"}]
             ELSE IF Contains(C_MARK, key_lower)
             THEN [text |-> FormatCurrency(value), applied |-> {"currency"}]
             ELSE IF Contains(D2_MARK, key_lower)
             THEN [text |-> Format2d(value), applied |-> {"2d"}]
             ELSE [text |-> PyStr(value), applied |-> {}]

get_text_style(key) ==
    LET key_lower == Lower(key)
    IN  [bold |-> Contains(<<U, "b">>, key_lower),
         italic |-> Contains(<<U, "i">>, key_lower),
         underline |-> Contains(<<U, "u">>, key_lower)]

RowValueUnnormalised(cell) == cell

\* One entry of row_data: "" if pd.isna(row[col]) else row[col]
RowValue(cell) == IF cell.t = "nan" THEN PyString(<<>>) ELSE cell

-----------------------------------------------------------------------------
(* One cell through the formatter and the style resolver: the column name  *)
(* and the cell are drawn at the start, and Render does what lines 151-153 *)
(* do with them once row_data has been built (lines 210-213).              *)

BaseNames == {<<"X">>, <<"N", "e", "t">>}

NumericSuffixes ==
    {COMMA_MARK, C_MARK, D2_MARK, <<U, "C">>, <<U, "2", "D">>,
     <<U, "C", "o", "m", "m", "a">>}

StyleSuffixes ==
    {<<U, "b">>, <<U, "i">>, <<U, "u">>, <<U, "b", "i">>, <<U, "b", "u">>,
     <<U, "i", "u">>, <<U, "b", "i", "u">>, <<U, "U", "B">>}

Suffixes == NumericSuffixes \cup StyleSuffixes

RECURSIVE Concat(_)
Concat(parts) == IF parts = <<>> THEN <<>> ELSE Head(parts) \o Concat(Tail(parts))

\* Column names: a base name and up to MaxSuffixes directive suffixes.
Keys ==
    {b \o Concat(sfx) : b \in BaseNames,
                        sfx \in UNION {[1..n -> Suffixes] : n \in 0..MaxSuffixes}}

NumberCells ==
    {PyInt(5000), PyInt(1000000), PyInt(-1234567), PyInt(0),
     PyFloat(98456), PyFloat(125), PyFloat(375), PyFloat(-2500), PyFloat(-1),
     PyFloat(1234500)}

TextCells ==
    {PyString(<<>>), PyString(<<"A", "n", "a">>), PyString(<<"1", "2">>),
     PyString(<<" ", "7", ".", "5", " ">>), PyString(<<"1", ",", "0", "0", "0">>),
     PyString(<<"-", "3", ".", "7", "5">>), PyString(<<"N", "/", "A">>)}

Cells == NumberCells \cup TextCells \cup {NaN}

NoStyle == [bold |-> FALSE, italic |-> FALSE, underline |-> FALSE]

FormatIdle ==
    /\ fphase = "idle" /\ fkey = <<>> /\ fcell = NaN
    /\ fout = <<>> /\ fapplied = {} /\ fstyle = NoStyle

InitFormat ==
    /\ fphase = "input"
    /\ fkey \in Keys
    /\ fcell \in Cells
    /\ fout = <<>>
    /\ fapplied = {}
    /\ fstyle = NoStyle

Render ==
    /\ fphase = "input"
    /\ LET raw_value == RowValue(fcell)
           formatted == format_value(fkey, raw_value)
       IN  /\ fout' = formatted.text
           /\ fapplied' = formatted.applied
    /\ fstyle' = get_text_style(fkey)
    /\ fphase' = "done"
    /\ UNCHANGED <<fkey, fcell>>

-----------------------------------------------------------------------------
(* PLACEHOLDER ENGINE *)

\* A run: its text, the three tri-state flags ("None" inherits) and the font
\* size (NoSize is Python's None).
NoSize == 0
Inherit == "None"
Tri(b) == IF b THEN "True" ELSE "False"

Run(text, bold, italic, underline, size) ==
    [text |-> text, bold |-> bold, italic |-> italic, underline |-> underline,
     size |-> size]

\* para.add_run(text) followed by `if original_font_size: run.font.size = ...`
add_run(text, original_font_size) ==
    Run(text, Inherit, Inherit, Inherit, original_font_size)

RECURSIVE JoinRuns(_)
\* "".join(run.text for run in para.runs)
JoinRuns(para) ==
    IF para = <<>> THEN <<>> ELSE Head(para).text \o JoinRuns(Tail(para))

RECURSIVE FindAllFrom(_, _)
\* The groups of the non-overlapping matches of \{\s*(.*?)\s*\} from
\* 1-based position pos on: a match opens at the first "{" that has a "}"
\* after it and closes at the first such "}"; the lazy group is what lies
\* between them with the whitespace at both ends left to the two \s*.
FindAllFrom(text, pos) ==
    LET opens == {i \in pos..Len(text) :
                     text[i] = "{" /\ \E j \in (i + 1)..Len(text) : text[j] = "}"}
    IN  IF opens = {} THEN <<>>
        ELSE LET open == CHOOSE i \in opens : \A k \in opens : i <= k
                 closes == {j \in (open + 1)..Len(text) : text[j] = "}"}
                 close == CHOOSE j \in closes : \A k \in closes : j <= k
             IN  <<Strip(SubSeq(text, open + 1, close - 1))>>
                     \o FindAllFrom(text, close + 1)

\* pattern.findall(full_text)
FindAll(text) == FindAllFrom(text, 1)

RECURSIVE RebuildFrom(_, _, _, _, _, _)
\* The `for match in matches` loop and the trailing-text step after it.
RebuildFrom(full_text, matches, last_idx, built, original_font_size, data) ==
    IF matches = <<>>
    THEN IF last_idx < Len(full_text)
         THEN Append(built, add_run(Slice(full_text, last_idx, Len(full_text)),
                                    original_font_size))
         ELSE built
    ELSE LET match == Head(matches)
             placeholder == <<"{">> \o match \o <<"}">>
             start == Find(full_text, placeholder, last_idx)
             withLiteral ==
                 IF start > last_idx
                 THEN Append(built, add_run(Slice(full_text, last_idx, start),
                                            original_font_size))
                 ELSE built
             key == Strip(match)
             style == get_text_style(key)
             withValue ==
                 IF key \in DOMAIN data
                 THEN Append(withLiteral,
                             Run(format_value(key, data[key]).text, Tri(style.bold),
                                 Tri(style.italic), Tri(style.underline),
                                 original_font_size))
                 ELSE withLiteral
         IN  RebuildFrom(full_text, Tail(matches), start + Len(placeholder),
                         withValue, original_font_size, data)

\* Lines 132-168: the first run's size, para.clear(), and the rebuild.
RebuildParagraph(para, data) ==
    LET full_text == JoinRuns(para)
        original_font_size == IF para # <<>> THEN para[1].size ELSE NoSize
    IN  RebuildFrom(full_text, FindAll(full_text), 0, <<>>, original_font_size, data)

\* process_paragraph without the `if not matches: return`.
process_paragraph_always_rebuilds(para, data) ==
    IF JoinRuns(para) = <<>> THEN para ELSE RebuildParagraph(para, data)

process_paragraph(para, data) ==
    IF JoinRuns(para) = <<>> THEN para
    ELSE IF FindAll(JoinRuns(para)) = <<>> THEN para
    ELSE RebuildParagraph(para, data)

\* A document: its body paragraphs, and its tables as rows of cells of
\* paragraphs.
Document(paragraphs, tables) == [paragraphs |-> paragraphs, tables |-> tables]

MapParagraphs(paras, data) ==
    [i \in 1..Len(paras) |-> process_paragraph(paras[i], data)]

replace_placeholders(d, data) ==
    [paragraphs |-> MapParagraphs(d.paragraphs, data),
     tables |-> [t \in 1..Len(d.tables) |->
                   [r \in 1..Len(d.tables[t]) |->
                      [c \in 1..Len(d.tables[t][r]) |->
                         MapParagraphs(d.tables[t][r][c], data)]]]]

-----------------------------------------------------------------------------
(* One paragraph through the engine: the paragraph (standalone, or in the  *)
(* one cell of a table) and the data row are drawn at the start.           *)

KeyN == <<"N", U, "b">>
KeyS == <<"S", U, "c">>

Fragments ==
    {<<"D", "e", "a", "r", " ">>, <<"!">>, <<"{">>, <<"}">>,
     <<"{">> \o KeyN \o <<"}">>,
     <<"{">> \o KeyS \o <<"}">>,
     <<"{", " ">> \o KeyS \o <<" ", "}">>}

\* How a template paragraph's runs are formatted, by position.
Layouts == {"plain", "sized", "mixed"}

LayoutRun(layout, i, text) ==
    CASE layout = "plain" -> Run(text, Inherit, Inherit, Inherit, NoSize)
      [] layout = "sized" ->
            IF i = 1 THEN Run(text, "True", Inherit, Inherit, 14)
            ELSE Run(text, Inherit, "True", Inherit, 11)
      [] OTHER ->
            IF i = 1 THEN Run(text, Inherit, Inherit, "True", NoSize)
            ELSE Run(text, "False", Inherit, Inherit, 11)

Paragraphs ==
    {[i \in 1..Len(texts) |-> LayoutRun(layout, i, texts[i])] :
        texts \in UNION {[1..n -> Fragments] : n \in 0..MaxRuns},
        layout \in Layouts}

DataRows ==
    {(KeyN :> PyString(<<"A", "n", "a">>)) @@ (KeyS :> PyInt(5000)),
     (KeyN :> PyString(<<>>))}

EmptyDocument == Document(<<>>, <<>>)

ParaIdle ==
    /\ pphase = "idle" /\ ptemplate = EmptyDocument
    /\ pdata = <<>> /\ pdoc = EmptyDocument

InitPara ==
    /\ pphase = "loaded"
    /\ \E para \in Paragraphs :
          ptemplate \in {Document(<<para>>, <<>>),
                         Document(<<>>, << << << <<para>> >> >> >>)}
    /\ pdata \in DataRows
    /\ pdoc = ptemplate

Substitute ==
    /\ pphase = "loaded"
    /\ pdoc' = replace_placeholders(pdoc, pdata)
    /\ pphase' = "done"
    /\ UNCHANGED <<ptemplate, pdata>>

-----------------------------------------------------------------------------
(* PROCESS: one run of the script from the two uploads to the download.    *)

NoFile == [uploaded |-> FALSE]
NoFrame == [read |-> FALSE]
NoDoc == [loaded |-> FALSE]
NoBuffer == [written |-> FALSE]
NoZip == [open |-> FALSE, created |-> FALSE, entries |-> <<>>]

ECODE == <<"E", "C", "o", "d", "e">>
NAME == <<"N", "a", "m", "e">>

\* The uploaded template: a body paragraph and a table of one cell.
TemplateDocument ==
    Document(
        << <<Run(<<"D", "e", "a", "r", " ", "{">> \o NAME \o <<"}", "!">>,
                 Inherit, Inherit, Inherit, 11)>> >>,
        << << << << <<Run(<<"{">> \o KeyS \o <<"}">>, Inherit, Inherit,
                          Inherit, NoSize)>> >> >> >> >>)

\* The header rows a sheet may carry.
Headers ==
    {<<ECODE>>,
     <<ECODE, NAME>>,
     <<Lower(ECODE) \o <<U, "i", "d">>, <<"N", "A", "M", "E">> \o <<U, "b">> >>,
     <<ECODE, <<"F", "u", "l", "l">> \o NAME>>,
     <<<<"C", "o", "d", "e">>, NAME>>,
     <<NAME, ECODE>>,
     <<ECODE, NAME, KeyS>>}

\* The cells a column may hold, by position.
ColumnCells(i) ==
    CASE i = 1 -> {PyString(<<"E", "1">>), PyInt(7)}
      [] i = 2 -> {PyString(<<"A", "n", "a">>), NaN}
      [] OTHER -> {PyInt(5000), PyString(<<"N", "/", "A">>)}

\* The rows a sheet of n columns may hold.
SheetRows(n) ==
    {row \in [1..n -> UNION {ColumnCells(i) : i \in 1..n}] :
        \A i \in 1..n : row[i] \in ColumnCells(i)}

Sheets ==
    {[columns |-> h, rows |-> r] :
        h \in Headers,
        r \in UNION {[1..n -> SheetRows(3)] : n \in 0..MaxRows}}

\* row[col] of a sheet row: the cells lie in column order.
ColumnIndex(cols, col) == CHOOSE i \in 1..Len(cols) : cols[i] = col
Cell(frame, row, col) == row[ColumnIndex(frame.columns, col)]

\* Lines 186-196 with a substring test on the second column.
ValidationErrorSubstring(cols) ==
    IF Len(cols) < 2 THEN "few_columns"
    ELSE IF ~StartsWith(Lower(cols[1]), Lower(ECODE)) THEN "first_column"
    ELSE IF ~Contains(Lower(NAME), Lower(cols[2])) THEN "second_column"
    ELSE "none"

\* Lines 186-196: which st.error the validation raises, "none" when it passes.
ValidationError(cols) ==
    IF Len(cols) < 2 THEN "few_columns"
    ELSE IF ~StartsWith(Lower(cols[1]), Lower(ECODE)) THEN "first_column"
    ELSE IF ~StartsWith(Lower(cols[2]), Lower(NAME)) THEN "second_column"
    ELSE "none"

\* doc.save(doc_buffer); doc_buffer.seek(0)
Save(d) == [written |-> TRUE, format |-> "docx", body |-> d]

DOCX == <<".", "d", "o", "c", "x">>

\* f"{row[df.columns[0]]}_{row[df.columns[1]]}.docx"
Filename(frame, row) ==
    PyStr(Cell(frame, row, frame.columns[1])) \o <<U>>
        \o PyStr(Cell(frame, row, frame.columns[2])) \o DOCX

BatchIdle ==
    /\ pc = "idle" /\ template_file = NoFile /\ excel_file = NoFile
    /\ button = FALSE /\ df = NoFrame /\ rowIdx = 0 /\ doc = NoDoc
    /\ row_data = <<>> /\ doc_buffer = NoBuffer /\ zip_file = NoZip
    /\ diag = "none" /\ offered = FALSE

InitBatch ==
    /\ pc = "start"
    /\ template_file \in {NoFile, [uploaded |-> TRUE, document |-> TemplateDocument]}
    /\ excel_file \in {NoFile} \cup {[uploaded |-> TRUE, sheet |-> s] : s \in Sheets}
    /\ button \in BOOLEAN
    /\ df = NoFrame
    /\ rowIdx = 0
    /\ doc = NoDoc
    /\ row_data = <<>>
    /\ doc_buffer = NoBuffer
    /\ zip_file = NoZip
    /\ diag = "none"
    /\ offered = FALSE

\* Line 182 when a file is missing: the run ends with nothing done.
NoUploads ==
    /\ pc = "start"
    /\ ~(template_file.uploaded /\ excel_file.uploaded)
    /\ pc' = "end"
    /\ UNCHANGED <<template_file, excel_file, button, df, rowIdx, doc, row_data,
                   doc_buffer, zip_file, diag, offered>>

\* Lines 183-198: read the sheet, validate its header, st.stop() on failure.
Validate ==
    /\ pc = "start"
    /\ template_file.uploaded /\ excel_file.uploaded
    /\ df' = [read |-> TRUE, columns |-> excel_file.sheet.columns,
              rows |-> excel_file.sheet.rows]
    /\ diag' = ValidationError(excel_file.sheet.columns)
    /\ pc' = IF ValidationError(excel_file.sheet.columns) = "none"
             THEN "validated" ELSE "stopped"
    /\ UNCHANGED <<template_file, excel_file, button, rowIdx, doc, row_data,
                   doc_buffer, zip_file, offered>>

\* Line 203 when the button was not clicked.
NotClicked ==
    /\ pc = "validated"
    /\ ~button
    /\ pc' = "end"
    /\ UNCHANGED <<template_file, excel_file, button, df, rowIdx, doc, row_data,
                   doc_buffer, zip_file, diag, offered>>

\* Lines 203-207: the click opens the archive and starts the row loop.
OpenArchive ==
    /\ pc = "validated"
    /\ button
    /\ zip_file' = [open |-> TRUE, created |-> TRUE, entries |-> <<>>]
    /\ rowIdx' = 1
    /\ pc' = IF Len(df.rows) >= 1 THEN "load" ELSE "close"
    /\ UNCHANGED <<template_file, excel_file, button, df, doc, row_data,
                   doc_buffer, diag, offered>>

\* Lines 208-213: a fresh document from the template, and the row's data.
LoadTemplate ==
    /\ pc = "load"
    /\ doc' = [loaded |-> TRUE, paragraphs |-> template_file.document.paragraphs,
               tables |-> template_file.document.tables]
    /\ row_data' = [col \in {df.columns[i] : i \in 1..Len(df.columns)} |->
                      RowValue(Cell(df, df.rows[rowIdx], col))]
    /\ pc' = "substitute"
    /\ UNCHANGED <<template_file, excel_file, button, df, rowIdx, doc_buffer,
                   zip_file, diag, offered>>

\* Line 215
SubstituteRow ==
    /\ pc = "substitute"
    /\ doc' = [loaded |-> TRUE] @@ replace_placeholders(doc, row_data)
    /\ pc' = "save"
    /\ UNCHANGED <<template_file, excel_file, button, df, rowIdx, row_data,
                   doc_buffer, zip_file, diag, offered>>

\* Lines 217-219
SaveDocument ==
    /\ pc = "save"
    /\ doc_buffer' = Save(doc)
    /\ pc' = "write"
    /\ UNCHANGED <<template_file, excel_file, button, df, rowIdx, doc, row_data,
                   zip_file, diag, offered>>

\* zip_file.writestr on an archive that keeps one entry per name.
WriteEntryByName ==
    /\ pc = "write"
    /\ LET name == Filename(df, df.rows[rowIdx])
           kept == SelectSeq(zip_file.entries, LAMBDA e : e.name # name)
       IN  zip_file' = [zip_file EXCEPT
                           !.entries = Append(kept, [name |-> name,
                                                     data |-> doc_buffer])]
    /\ rowIdx' = rowIdx + 1
    /\ pc' = IF rowIdx < Len(df.rows) THEN "load" ELSE "close"
    /\ UNCHANGED <<template_file, excel_file, button, df, doc, row_data,
                   doc_buffer, diag, offered>>

\* Lines 221-222, and the loop's step to the next row.
WriteEntry ==
    /\ pc = "write"
    /\ zip_file' = [zip_file EXCEPT
                       !.entries = Append(@, [name |-> Filename(df, df.rows[rowIdx]),
                                              data |-> doc_buffer])]
    /\ rowIdx' = rowIdx + 1
    /\ pc' = IF rowIdx < Len(df.rows) THEN "load" ELSE "close"
    /\ UNCHANGED <<template_file, excel_file, button, df, doc, row_data,
                   doc_buffer, diag, offered>>

\* Lines 206 and 224-231: the archive is closed and the download offered.
OfferDownload ==
    /\ pc = "close"
    /\ zip_file' = [zip_file EXCEPT !.open = FALSE]
    /\ offered' = TRUE
    /\ pc' = "end"
    /\ UNCHANGED <<template_file, excel_file, button, df, rowIdx, doc, row_data,
                   doc_buffer, diag>>

-----------------------------------------------------------------------------
(* Specifications. *)

Init == FormatIdle /\ ParaIdle /\ InitBatch

Next ==
    \/ NoUploads /\ UNCHANGED <<fvars, pvars>>
    \/ Validate /\ UNCHANGED <<fvars, pvars>>
    \/ NotClicked /\ UNCHANGED <<fvars, pvars>>
    \/ OpenArchive /\ UNCHANGED <<fvars, pvars>>
    \/ LoadTemplate /\ UNCHANGED <<fvars, pvars>>
    \/ SubstituteRow /\ UNCHANGED <<fvars, pvars>>
    \/ SaveDocument /\ UNCHANGED <<fvars, pvars>>
    \/ WriteEntry /\ UNCHANGED <<fvars, pvars>>
    \/ OfferDownload /\ UNCHANGED <<fvars, pvars>>

\* One run of the script.
Spec == Init /\ [][Next]_vars

InitF == InitFormat /\ ParaIdle /\ BatchIdle
NextF == Render /\ UNCHANGED <<pvars, bvars>>

\* One cell through format_value and get_text_style.
SpecFormat == InitF /\ [][NextF]_vars

InitP == FormatIdle /\ InitPara /\ BatchIdle
NextP == Substitute /\ UNCHANGED <<fvars, bvars>>

\* One paragraph through replace_placeholders.
SpecPara == InitP /\ [][NextP]_vars

-----------------------------------------------------------------------------
(* What the specification says of the formatter and the style resolver.    *)

Range(f) == {f[i] : i \in DOMAIN f}

LowerKey == Lower(fkey)

\* C1: a column name that ends in "_" and a non-empty combination of the
\* letters b, i, u (after a base name without an underscore) gets bold iff b
\* is in the combination, italic iff i is, underline iff u is; "X_biu" gets
\* all three.
C1_CombinedStyleSuffix ==
    fphase = "done" =>
        \A base \in BaseNames, n \in 1..3 :
            \A combo \in [1..n -> {"b", "i", "u"}] :
                fkey = base \o <<U>> \o combo =>
                    /\ fstyle.bold = ("b" \in Range(combo))
                    /\ fstyle.italic = ("i" \in Range(combo))
                    /\ fstyle.underline = ("u" \in Range(combo))

\* C4: exactly one numeric directive is selected per column name, by the
\* precedence "_comma", then "_c", then "_2d", then none, each tested as a
\* case-insensitive substring; the text returned is that formatter's, and no
\* name has two formatters applied.
C4_OneDirectiveByPrecedence ==
    fphase = "done" =>
        LET value == RowValue(fcell)
        IN  /\ Cardinality(fapplied) <= 1
            /\ Contains(COMMA_MARK, LowerKey) =>
                   fapplied = {"comma"} /\ fout = FormatComma(value)
            /\ ~Contains(COMMA_MARK, LowerKey) /\ Contains(C_MARK, LowerKey) =>
                   fapplied = {"currency"} /\ fout = FormatCurrency(value)
            /\ ~Contains(C_MARK, LowerKey) /\ Contains(D2_MARK, LowerKey) =>
                   fapplied = {"2d"} /\ fout = Format2d(value)
            /\ ~Contains(C_MARK, LowerKey) /\ ~Contains(D2_MARK, LowerKey) =>
                   fapplied = {} /\ fout = PyStr(value)

\* A name that carries both "_2d" and "_comma" is formatted by the comma rule.
C4_Witness ==
    /\ fphase = "done"
    /\ Contains(COMMA_MARK, LowerKey) /\ Contains(D2_MARK, LowerKey)
    /\ fcell = PyInt(1000000)
    /\ fout = <<"1", ",", "0", "0", "0", ",", "0", "0", "0">>

IsNumber(cell) == cell.t \in {"int", "float"}

\* The number in thousandths.
Thousandths(cell) == IF cell.t = "int" THEN 1000 * cell.n ELSE cell.m

\* Digits, a point and exactly two digits, after an optional minus sign.
IsTwoDecimals(s) ==
    LET body == IF s # <<>> /\ s[1] = "-" THEN Tail(s) ELSE s
    IN  /\ Len(body) >= 4
        /\ body[Len(body) - 2] = "."
        /\ \A i \in 1..Len(body) : i # Len(body) - 2 => IsDigit(body[i])

\* The text is the number to two decimals: of that shape, and within half a
\* hundredth of it.
RendersTwoDecimals(s, cell) ==
    /\ IsTwoDecimals(s)
    /\ Abs(ParseFloat(s).m - Thousandths(cell)) <= 5

\* C5 as stated: for every column name containing "_2d" and every numeric
\* value the result is the value with exactly two decimal digits, whatever
\* other directive markers the name contains.
C5_TwoDecimalsWhateverElse ==
    fphase = "done" /\ Contains(D2_MARK, LowerKey) /\ IsNumber(fcell) =>
        RendersTwoDecimals(fout, fcell)

\* C5 amended: for every column name containing "_2d" but neither "_comma"
\* nor "_c", and every numeric value, the result is the value with exactly
\* two decimal digits.
C5_TwoDecimalsWhenSelected ==
    fphase = "done" /\ Contains(D2_MARK, LowerKey) /\ ~Contains(C_MARK, LowerKey)
            /\ IsNumber(fcell) =>
        RendersTwoDecimals(fout, fcell)

\* Score_2d_i of the sidebar: 98.456 becomes 98.46.
C5_Witness ==
    /\ fphase = "done"
    /\ fkey = <<"X">> \o D2_MARK \o <<U, "i">>
    /\ fcell = PyFloat(98456)
    /\ fout = <<"9", "8", ".", "4", "6">>

HasNumericDirective ==
    \/ Contains(COMMA_MARK, LowerKey)
    \/ Contains(C_MARK, LowerKey)
    \/ Contains(D2_MARK, LowerKey)

\* C6: under any numeric directive, a value that does not parse as a number
\* comes back as its raw string, and a missing (NaN) cell as the empty string.
C6_FallbackToRawString ==
    fphase = "done" /\ HasNumericDirective =>
        /\ fcell.t = "nan" => fout = <<>>
        /\ fcell.t = "str" /\ ~ParseFloat(fcell.s).ok => fout = fcell.s

\* A currency column holding the text N/A.
C6_Witness ==
    /\ fphase = "done"
    /\ Contains(C_MARK, LowerKey) /\ ~Contains(COMMA_MARK, LowerKey)
    /\ fcell = PyString(<<"N", "/", "A">>)
    /\ fout = <<"N", "/", "A">>

-----------------------------------------------------------------------------
(* What the specification says of the placeholder engine.                  *)

\* The one paragraph of a document of this specification.
TheParagraph(d) ==
    IF d.paragraphs # <<>> THEN d.paragraphs[1] ELSE d.tables[1][1][1][1]

TemplateText == JoinRuns(TheParagraph(ptemplate))
ResultRuns == TheParagraph(pdoc)
ResultText == JoinRuns(ResultRuns)

RECURSIVE Tokens(_, _)
\* The placeholder tokens of a text, left to right from 1-based position
\* pos: where each opens and closes, what lies between the braces, and its
\* key (that with the padding trimmed).
Tokens(text, pos) ==
    LET opens == {i \in pos..Len(text) :
                     text[i] = "{" /\ \E j \in (i + 1)..Len(text) : text[j] = "}"}
    IN  IF opens = {} THEN <<>>
        ELSE LET open == CHOOSE i \in opens : \A k \in opens : i <= k
                 close == CHOOSE j \in (open + 1)..Len(text) :
                             /\ text[j] = "}"
                             /\ \A k \in (open + 1)..(j - 1) : text[k] # "}"
                 inner == SubSeq(text, open + 1, close - 1)
             IN  <<[open |-> open, close |-> close, inner |-> inner,
                    key |-> Strip(inner)]>> \o Tokens(text, close + 1)

TemplateTokens == Tokens(TemplateText, 1)

RECURSIVE Substituted(_, _, _, _)
\* The text from 1-based position pos on with every token replaced by the
\* formatted value of its key, or by nothing when the row has no such key.
Substituted(text, tokens, pos, data) ==
    IF tokens = <<>> THEN SubSeq(text, pos, Len(text))
    ELSE LET tok == Head(tokens)
         IN  SubSeq(text, pos, tok.open - 1)
                 \o (IF tok.key \in DOMAIN data
                     THEN format_value(tok.key, data[tok.key]).text
                     ELSE <<>>)
                 \o Substituted(text, Tail(tokens), tok.close + 1, data)

ExpectedText == Substituted(TemplateText, TemplateTokens, 1, pdata)

IsPadded(tok) == tok.inner # tok.key

\* C2: a paragraph whose one token is padded with whitespace inside the
\* braces, its key a column of the row, becomes the text with the whole token
\* replaced by the formatted value and everything outside it unchanged.
C2_PaddedTokenSubstituted ==
    pphase = "done" /\ Len(TemplateTokens) = 1 /\ IsPadded(TemplateTokens[1])
            /\ TemplateTokens[1].key \in DOMAIN pdata =>
        ResultText = ExpectedText

\* C3: where no token's key is a column of the row, every token is removed
\* whole and the text outside the tokens is kept once, in order.
C3_UnknownTokensVanish ==
    pphase = "done" /\ TemplateTokens # <<>>
            /\ (\A i \in 1..Len(TemplateTokens) :
                    TemplateTokens[i].key \notin DOMAIN pdata) =>
        ResultText = ExpectedText

\* How often the unpadded token of a key occurs among the tokens.
Occurrences(key) ==
    Cardinality({i \in 1..Len(TemplateTokens) : TemplateTokens[i].inner = key})

\* The runs of the result that carry the key's value, its three style flags
\* and the size of the template's first run.
ValueRuns(key) ==
    {i \in 1..Len(ResultRuns) :
        /\ ResultRuns[i].text = format_value(key, pdata[key]).text
        /\ ResultRuns[i].bold = Tri(Contains(<<U, "b">>, Lower(key)))
        /\ ResultRuns[i].italic = Tri(Contains(<<U, "i">>, Lower(key)))
        /\ ResultRuns[i].underline = Tri(Contains(<<U, "u">>, Lower(key)))
        /\ ResultRuns[i].size = TheParagraph(ptemplate)[1].size}

\* C9: where the token {key} occurs several times and key is a column of the
\* row, each occurrence is replaced by a run of its own with the same text,
\* flags and size, and the text between the occurrences is kept in order.
C9_EveryOccurrenceSubstituted ==
    pphase = "done" =>
        \A key \in DOMAIN pdata :
            Occurrences(key) >= 2 =>
                /\ Cardinality(ValueRuns(key)) >= Occurrences(key)
                /\ ResultText = ExpectedText

\* Where every token is written without padding, the engine's result is the
\* substituted text: the three statements above fail on padded tokens only.
UnpaddedTokensSubstituted ==
    pphase = "done" /\ (\A i \in 1..Len(TemplateTokens) : ~IsPadded(TemplateTokens[i])) =>
        /\ ResultText = ExpectedText
        /\ \A key \in DOMAIN pdata :
               Occurrences(key) >= 1 => Cardinality(ValueRuns(key)) >= Occurrences(key)

\* No "{" of the text has a "}" after it.
NoToken(text) ==
    ~\E i \in 1..Len(text), j \in 1..Len(text) :
        i < j /\ text[i] = "{" /\ text[j] = "}"

\* C10: a paragraph without a token, standalone or in a table cell, with or
\* without runs, comes out with the same runs, texts and formatting.
C10_TokenFreeParagraphUntouched ==
    pphase = "done" /\ NoToken(TemplateText) => pdoc = ptemplate

\* A table-cell paragraph of two formatted runs reading "}{".
C10_Witness ==
    /\ pphase = "done"
    /\ ptemplate.paragraphs = <<>>
    /\ Len(TheParagraph(ptemplate)) = 2
    /\ TheParagraph(ptemplate)[1].size = 14
    /\ TemplateText = <<"}", "{">>
    /\ pdoc = ptemplate

-----------------------------------------------------------------------------
(* What the specification says of the run.                                 *)

\* The three structural checks, on the header of the uploaded sheet.
StructureOK(header) ==
    /\ Len(header) >= 2
    /\ StartsWith(Lower(header[1]), <<"e", "c", "o", "d", "e">>)
    /\ StartsWith(Lower(header[2]), <<"n", "a", "m", "e">>)

\* Some step of document generation has happened or is under way.
Generating ==
    \/ pc \in {"load", "substitute", "save", "write", "close"}
    \/ doc # NoDoc
    \/ doc_buffer # NoBuffer
    \/ zip_file # NoZip
    \/ offered

\* C7: with a sheet of fewer than two columns, or a first column not
\* starting with "ecode", or a second not starting with "name" (whatever the
\* case), the run stops with a diagnostic, and nothing is loaded, substituted,
\* saved, archived or offered; a document is generated only after all three
\* checks passed.
C7_ValidationGatesGeneration ==
    /\ excel_file.uploaded /\ ~StructureOK(excel_file.sheet.columns) =>
           /\ ~Generating
           /\ template_file.uploaded /\ pc # "start" =>
                  /\ pc = "stopped"
                  /\ diag \in {"few_columns", "first_column", "second_column"}
    /\ Generating =>
           /\ excel_file.uploaded /\ template_file.uploaded
           /\ StructureOK(excel_file.sheet.columns)
           /\ diag = "none"

\* A sheet whose second column is FullName, with rows and the button clicked.
C7_Witness ==
    /\ pc = "stopped"
    /\ diag = "second_column"
    /\ button
    /\ df.columns[2] = <<"F", "u", "l", "l", "N", "a", "m", "e">>
    /\ Len(df.rows) = MaxRows

Entries == zip_file.entries

\* The document of sheet row i: the template with row i's cells (a missing
\* one as the empty string) substituted, saved.
RowDocument(i) ==
    LET data == [col \in Range(df.columns) |->
                    IF Cell(df, df.rows[i], col).t = "nan" THEN PyString(<<>>)
                    ELSE Cell(df, df.rows[i], col)]
    IN  [written |-> TRUE, format |-> "docx",
         body |-> [loaded |-> TRUE] @@
                      replace_placeholders(template_file.document, data)]

C8_State ==
    /\ pc \in {"load", "substitute", "save", "write"} =>
           Len(Entries) = rowIdx - 1 /\ rowIdx <= Len(df.rows)
    /\ pc = "write" => doc_buffer = RowDocument(rowIdx)
    /\ \A i \in 1..Len(Entries) :
           /\ i <= Len(df.rows)
           /\ Entries[i].name = PyStr(df.rows[i][1]) \o <<U>> \o PyStr(df.rows[i][2])
                                    \o <<".", "d", "o", "c", "x">>
           /\ Entries[i].data = RowDocument(i)
    /\ offered => Len(Entries) = Len(df.rows) /\ ~zip_file.open

C8_Step ==
    /\ Len(zip_file'.entries) \in {Len(Entries), Len(Entries) + 1}
    /\ \A i \in 1..Len(Entries) : zip_file'.entries[i] = Entries[i]
    /\ zip_file'.entries # Entries => pc = "write"
    /\ pc' = "load" => pc \in {"validated", "write"}

\* C8: rows are handled in sheet order, one row's load, substitution, save
\* and write all done before the next row's begin; after k rows the archive
\* holds exactly k entries, the i-th named after row i's first two cells;
\* written entries never change or go; the download comes after the last row.
C8_SequentialAppendOnly == [](C8_State) /\ [][C8_Step]_vars

\* Two rows of the same name, both in the archive when the download is offered.
C8_Witness ==
    /\ offered
    /\ Len(Entries) = MaxRows
    /\ Entries[1].name = Entries[2].name
    /\ Entries[1].data # Entries[2].data

=============================================================================
